---- MODULE Spec2Model ----
(***************************************************************************)
(* A model of rnagit (src/main.rs): a terminal dashboard over a git        *)
(* repository.  Three threads exist: the key reader and the ticker, which  *)
(* only send into one mpsc channel, and the main thread, which owns the    *)
(* App struct and runs App::run.  The git2 repository and the terminal are *)
(* the environment: `git` holds what the repository would answer if asked  *)
(* now, `tty_size` what the terminal would report if asked now.            *)
(*                                                                         *)
(* Option<T> is modelled as a sequence of length 0 (None) or 1 (Some).     *)
(* Text is assumed to be valid UTF-8 (the unwraps of name(), path() and    *)
(* message() succeed) and the terminal calls are assumed to succeed; the   *)
(* unwrap of Repository::head() is modelled with both outcomes.            *)
(***************************************************************************)
EXTENDS Naturals, Sequences, FiniteSets

VARIABLES
    repo,       \* App.repo: "Some" or "None"
    head,       \* App.head: Option<HeadInfo>
    branches,   \* App.branches: Vec<String>
    untracked,  \* App.untracked: Vec<String>
    unstaged,   \* App.unstaged: Vec<StatusEntry>
    staged,     \* App.staged: Vec<StatusEntry>
    term_size,  \* App.term_size: the cached terminal size
    refresh,    \* App.refresh
    rx,         \* the mpsc channel behind App.rx, oldest event first
    pc,         \* where the main thread is in App::run
    evt,        \* the local `evt` of App::run: Option<Event>
    output,     \* the text of the last frame drawn, as the pieces pushed
    cursor,     \* the terminal's cursor: "shown" or "hidden"
    tty_size,   \* environment: the size the terminal reports when asked
    git,        \* environment: the answers the repository gives when asked
    last_git,   \* history: Option of the answers the last completed refresh got
    same_again, \* history: the last completed refresh got the answers of the one before
    resized,    \* history: calls of Terminal::resize in the current loop iteration
    show_cursor_calls, \* history: calls of Terminal::show_cursor
    renders,    \* history: frames drawn (counted up to MaxCount)
    refreshes,  \* history: refreshes begun (counted up to MaxCount)
    logging,    \* history: whether the two logs below are kept in this run
    sent,       \* history: the events sent into the channel, in order of arrival
    taken       \* history: the events the main thread received, in order

vars == << repo, head, branches, untracked, unstaged, staged, term_size, refresh,
           rx, pc, evt, output, cursor, tty_size, git, last_git, same_again,
           resized, show_cursor_calls, renders, refreshes, logging, sent, taken >>

(***************************************************************************)
(* Bounds of the model.                                                    *)
(***************************************************************************)
\* events the channel holds at once (the channel of the program is unbounded)
MaxChan == 2
\* the history counters stop counting here
MaxCount == 2
\* events sent in a run that keeps the logs
MaxLog == 4

Inc(c) == IF c < MaxCount THEN c + 1 ELSE c

(***************************************************************************)
(* Events and keys.                                                        *)
(***************************************************************************)
Keys == {"q", "r", "x"}
Input(k) == [type |-> "Input", key |-> k]
Tick == [type |-> "Tick", key |-> ""]

(***************************************************************************)
(* git2 status flags.                                                      *)
(***************************************************************************)
STATUS_IGNORED == "IGNORED"
IndexFlags == {"INDEX_TYPECHANGE", "INDEX_NEW", "INDEX_MODIFIED", "INDEX_DELETED", "INDEX_RENAMED"}
WtChangeFlags == {"WT_TYPECHANGE", "WT_MODIFIED", "WT_DELETED", "WT_RENAMED"}
STATUS_WT_NEW == "WT_NEW"
AllFlags == {STATUS_IGNORED} \cup IndexFlags \cup WtChangeFlags \cup {STATUS_WT_NEW}

Intersects(stat, flags) == stat \cap flags # {}
Contains(stat, flag) == flag \in stat

(***************************************************************************)
(* The repository as the program sees it: the result of Repository::head   *)
(* (with shorthand() and find_commit(target)), of Repository::branches and *)
(* of Repository::statuses.                                                *)
(***************************************************************************)
HeadOnBranch == [ok |-> TRUE, shorthand |-> <<"master">>,
                 commit |-> <<[id |-> "a1b2", message |-> "init"]>>]
HeadDetached == [ok |-> TRUE, shorthand |-> <<"HEAD">>,
                 commit |-> <<[id |-> "c3d4", message |-> "wip"]>>]
HeadNoCommit == [ok |-> TRUE, shorthand |-> <<"master">>, commit |-> <<>>]
HeadUnborn == [ok |-> FALSE, shorthand |-> <<>>, commit |-> <<>>]

BranchItem(n) == [ok |-> TRUE, name |-> n]
BranchItemErr == [ok |-> FALSE, name |-> ""]
BranchesOk == [ok |-> TRUE, err |-> "",
               items |-> <<BranchItem("master"), BranchItemErr, BranchItem("dev")>>]
BranchesErr == [ok |-> FALSE, err |-> "could not list branches", items |-> <<>>]

Entry(p, s) == [path |-> p, status |-> s]
StatusMixed == [ok |-> TRUE, err |-> "",
                entries |-> << Entry("a.txt", {"INDEX_MODIFIED", "WT_MODIFIED"}),
                               Entry("b.txt", {"WT_DELETED"}),
                               Entry("c.txt", {"WT_NEW"}),
                               Entry("d.log", {"IGNORED", "WT_NEW"}) >>]
StatusOther == [ok |-> TRUE, err |-> "",
                entries |-> << Entry("e.txt", {"INDEX_NEW"}),
                               Entry("a.txt", {"WT_RENAMED", "WT_NEW"}),
                               Entry("f.txt", {}) >>]
StatusErr == [ok |-> FALSE, err |-> "could not read the index", entries |-> <<>>]

GitState(h, b, s) == [head |-> h, branches |-> b, statuses |-> s]

World == { GitState(HeadOnBranch, BranchesOk, StatusMixed),
           GitState(HeadDetached, BranchesOk, StatusOther),
           GitState(HeadNoCommit, BranchesErr, StatusMixed),
           GitState(HeadUnborn, BranchesOk, StatusMixed),
           GitState(HeadOnBranch, BranchesOk, StatusErr),
           GitState(HeadOnBranch, BranchesErr, StatusErr) }

TermSizes == {"80x24", "120x40"}

(***************************************************************************)
(* The refresh of App::draw (lines 164-241), as functions of the answers.  *)
(***************************************************************************)
\* Vec::clear
NotCleared(v) == v
Cleared(v) == <<>>

\* head.take(), get_or_insert of the default HeadInfo, then the two ifs
HeadInfoOf(h) ==
    [ ref_name |-> IF h.shorthand # <<>> THEN h.shorthand[1] ELSE "",
      message  |-> IF h.commit # <<>> THEN h.commit[1].message ELSE "",
      hash     |-> IF h.commit # <<>> THEN h.commit[1].id ELSE "" ]

RECURSIVE CollectBranches(_, _)
CollectBranches(items, acc) ==
    IF items = <<>> THEN acc
    ELSE CollectBranches(Tail(items),
                         IF Head(items).ok THEN Append(acc, Head(items).name) ELSE acc)

BranchesAfter(old, res) ==
    IF res.ok THEN CollectBranches(res.items, Cleared(old)) ELSE Cleared(old)

\* one turn of the loop over statuses.iter(); l is the three lists
PushStatusNoIgnoreCheck(l, e) ==
    IF Intersects(e.status, IndexFlags)
    THEN [l EXCEPT !.staged = Append(@, e)]
    ELSE IF Intersects(e.status, WtChangeFlags)
    THEN [l EXCEPT !.unstaged = Append(@, e)]
    ELSE IF Intersects(e.status, {STATUS_WT_NEW})
    THEN [l EXCEPT !.untracked = Append(@, e.path)]
    ELSE l

PushStatusWorktreeFirst(l, e) ==
    IF Contains(e.status, STATUS_IGNORED) THEN l
    ELSE IF Intersects(e.status, WtChangeFlags)
    THEN [l EXCEPT !.unstaged = Append(@, e)]
    ELSE IF Intersects(e.status, IndexFlags)
    THEN [l EXCEPT !.staged = Append(@, e)]
    ELSE IF Intersects(e.status, {STATUS_WT_NEW})
    THEN [l EXCEPT !.untracked = Append(@, e.path)]
    ELSE l

PushStatusNoElse(l, e) ==
    IF Contains(e.status, STATUS_IGNORED) THEN l
    ELSE LET l1 == IF Intersects(e.status, IndexFlags)
                   THEN [l EXCEPT !.staged = Append(@, e)] ELSE l
             l2 == IF Intersects(e.status, WtChangeFlags)
                   THEN [l1 EXCEPT !.unstaged = Append(@, e)] ELSE l1
         IN  IF Intersects(e.status, {STATUS_WT_NEW})
             THEN [l2 EXCEPT !.untracked = Append(@, e.path)] ELSE l2

PushStatus(l, e) ==
    IF Contains(e.status, STATUS_IGNORED) THEN l
    ELSE IF Intersects(e.status, IndexFlags)
    THEN [l EXCEPT !.staged = Append(@, e)]
    ELSE IF Intersects(e.status, WtChangeFlags)
    THEN [l EXCEPT !.unstaged = Append(@, e)]
    ELSE IF Intersects(e.status, {STATUS_WT_NEW})
    THEN [l EXCEPT !.untracked = Append(@, e.path)]
    ELSE l

RECURSIVE ClassifyAll(_, _)
ClassifyAll(entries, l) ==
    IF entries = <<>> THEN l
    ELSE ClassifyAll(Tail(entries), PushStatus(l, Head(entries)))

StatusAfter(old, res) ==
    LET l0 == [staged |-> Cleared(old.staged), unstaged |-> Cleared(old.unstaged),
               untracked |-> Cleared(old.untracked)]
    IN  IF res.ok THEN ClassifyAll(res.entries, l0) ELSE l0

\* output.push_str(e.message()) of the two Err arms
NoErrorNote(res) == <<>>
ErrorNote(res) == IF res.ok THEN <<>> ELSE <<res.err>>

(***************************************************************************)
(* The text of a frame (App::draw, lines 162-163 and 242-297), as the      *)
(* sequence of the pieces pushed onto `output`.                            *)
(***************************************************************************)
UnstagedLabel(stat) ==
    IF Intersects(stat, {"WT_MODIFIED"}) THEN <<"modified: ">>
    ELSE IF Intersects(stat, {"WT_DELETED"}) THEN <<"deleted:  ">>
    ELSE IF Intersects(stat, {"WT_RENAMED"}) THEN <<"renamed:  ">>
    ELSE IF Intersects(stat, {"WT_TYPECHANGE"}) THEN <<"typechange:">>
    ELSE <<>>

StagedLabel(stat) ==
    IF Intersects(stat, {"INDEX_MODIFIED"}) THEN <<"modified: ">>
    ELSE IF Intersects(stat, {"INDEX_DELETED"}) THEN <<"deleted:  ">>
    ELSE IF Intersects(stat, {"INDEX_RENAMED"}) THEN <<"renamed:  ">>
    ELSE IF Intersects(stat, {"INDEX_TYPECHANGE"}) THEN <<"typechange:">>
    ELSE <<>>

RECURSIVE BranchLines(_)
BranchLines(v) ==
    IF v = <<>> THEN <<>> ELSE <<"\t", Head(v), "\n">> \o BranchLines(Tail(v))

RECURSIVE UntrackedLines(_)
UntrackedLines(v) ==
    IF v = <<>> THEN <<>> ELSE <<Head(v), "\n">> \o UntrackedLines(Tail(v))

RECURSIVE UnstagedLines(_)
UnstagedLines(v) ==
    IF v = <<>> THEN <<>>
    ELSE UnstagedLabel(Head(v).status) \o <<Head(v).path, "\n">> \o UnstagedLines(Tail(v))

RECURSIVE StagedLines(_)
StagedLines(v) ==
    IF v = <<>> THEN <<>>
    ELSE StagedLabel(Head(v).status) \o <<Head(v).path, "\n">> \o StagedLines(Tail(v))

HeadLine(h) == <<"Head: ", "<bright_blue>", h.ref_name, "</>", " ", h.message, "\n">>

Render(notes, hd, br, ut, us, st) ==
    <<"rngit\n">> \o notes
    \o (IF hd # <<>> THEN HeadLine(hd[1]) ELSE <<>>)
    \o (IF br # <<>> THEN <<"Branches:\n">> \o BranchLines(br) ELSE <<>>)
    \o (IF ut # <<>> THEN <<"\nUntracked changes:\n">> \o UntrackedLines(ut) ELSE <<>>)
    \o (IF us # <<>> THEN <<"\nUnstaged changes:\n">> \o UnstagedLines(us) ELSE <<>>)
    \o (IF st # <<>> THEN <<"\nStaged changes:\n">> \o StagedLines(st) ELSE <<>>)

(***************************************************************************)
(* The decisions of App::update_size, App::run and App::draw.              *)
(***************************************************************************)
\* update_size: size != self.term_size
AlwaysResize(size, cached) == TRUE
NeedsResize(size, cached) == size # cached

\* run: the match on the event; TRUE when the loop breaks
NeverBreaks(e) == FALSE
Breaks(e) == e = Input("q")

\* run: self.refresh after the match on the event
RefreshAfterAnyEvent(e, rf) == TRUE
RefreshAfter(e, rf) == IF e = Input("r") THEN TRUE ELSE rf

\* draw: self.repo.is_some() && self.refresh
RefreshWithoutRepo(rp, rf) == rf
ShouldRefresh(rp, rf) == rp = "Some" /\ rf

\* draw: self.refresh = false, at the end of the refresh
RefreshLeftPending(rf) == rf
RefreshDone(rf) == FALSE

\* draw: what the Err arms push onto the String::new() of this frame
NotesWhenever(refreshing, g) == ErrorNote(g.branches) \o ErrorNote(g.statuses)
NotesOfFrame(refreshing, g) ==
    IF refreshing THEN ErrorNote(g.branches) \o ErrorNote(g.statuses) ELSE <<>>

\* mpsc::Sender::send: the event goes to the end of the queue
ChanSendMerging(q, e) == IF q # <<>> /\ q[Len(q)] = e THEN q ELSE Append(q, e)
ChanSend(q, e) == Append(q, e)

Alive == pc \notin {"done", "panicked"}

(***************************************************************************)
(* The main thread.                                                        *)
(***************************************************************************)
InitApp ==
    /\ repo \in {"Some", "None"}
    /\ head = <<>>
    /\ branches = <<>>
    /\ untracked = <<>>
    /\ unstaged = <<>>
    /\ staged = <<>>
    /\ term_size \in TermSizes
    /\ tty_size = term_size
    /\ refresh = TRUE
    /\ rx = <<>>
    /\ pc = "start"
    /\ evt = <<>>
    /\ output = <<>>
    /\ cursor = "shown"
    /\ git \in World
    /\ last_git = <<>>
    /\ same_again = FALSE
    /\ resized = 0
    /\ show_cursor_calls = 0
    /\ renders = 0
    /\ refreshes = 0

\* the state after App::new; the logs are not kept
Init == InitApp /\ logging = FALSE /\ sent = <<>> /\ taken = <<>>

\* run, lines 129-130: clear the screen and hide the cursor
RunStart ==
    /\ pc = "start"
    /\ pc' = "size"
    /\ cursor' = "hidden"
    /\ UNCHANGED << repo, head, branches, untracked, unstaged, staged, term_size,
                    refresh, rx, evt, output, tty_size, git, last_git, same_again,
                    resized, show_cursor_calls, renders, refreshes,
                    logging, sent, taken >>

\* update_size, called at the top of the loop
UpdateSize ==
    /\ pc = "size"
    /\ IF NeedsResize(tty_size, term_size)
       THEN /\ resized' = resized + 1
            /\ term_size' = tty_size
       ELSE UNCHANGED << resized, term_size >>
    /\ pc' = "recv"
    /\ UNCHANGED << repo, head, branches, untracked, unstaged, staged, refresh, rx,
                    evt, output, cursor, tty_size, git, last_git, same_again,
                    show_cursor_calls, renders, refreshes,
                    logging, sent, taken >>

\* run, lines 135-148: rx.recv() blocks until an event is there, then the match
Recv ==
    /\ pc = "recv"
    /\ rx # <<>>
    /\ evt' = <<Head(rx)>>
    /\ rx' = Tail(rx)
    /\ taken' = IF logging THEN Append(taken, Head(rx)) ELSE taken
    /\ refresh' = RefreshAfter(Head(rx), refresh)
    /\ pc' = IF Breaks(Head(rx)) THEN "exit" ELSE "draw"
    /\ UNCHANGED << repo, head, branches, untracked, unstaged, staged, term_size,
                    output, cursor, tty_size, git, last_git, same_again, resized,
                    show_cursor_calls, renders, refreshes,
                    logging, sent >>

\* draw: the whole of it.  Repository::head() of an unborn HEAD is an Err and
\* its unwrap panics, after self.repo.take() and before anything is stored.
Draw ==
    /\ pc = "draw"
    /\ IF ShouldRefresh(repo, refresh) /\ ~git.head.ok
       THEN /\ pc' = "panicked"
            /\ repo' = "None"
            /\ refreshes' = Inc(refreshes)
            /\ UNCHANGED << head, branches, untracked, unstaged, staged, refresh,
                            evt, output, last_git, same_again, resized, renders >>
       ELSE /\ IF ShouldRefresh(repo, refresh)
               THEN LET l == StatusAfter([staged |-> staged, unstaged |-> unstaged,
                                          untracked |-> untracked], git.statuses)
                        b == BranchesAfter(branches, git.branches)
                        h == <<HeadInfoOf(git.head)>>
                        notes == NotesOfFrame(TRUE, git)
                    IN  /\ head' = h
                        /\ branches' = b
                        /\ staged' = l.staged
                        /\ unstaged' = l.unstaged
                        /\ untracked' = l.untracked
                        /\ refresh' = RefreshDone(refresh)
                        /\ output' = Render(notes, h, b, l.untracked, l.unstaged, l.staged)
                        /\ last_git' = <<git>>
                        /\ same_again' = (last_git = <<git>>)
                        /\ refreshes' = Inc(refreshes)
               ELSE /\ output' = Render(NotesOfFrame(FALSE, git), head, branches,
                                        untracked, unstaged, staged)
                    /\ UNCHANGED << head, branches, untracked, unstaged, staged,
                                    refresh, last_git, same_again, refreshes >>
            /\ renders' = Inc(renders)
            /\ evt' = <<>>
            /\ resized' = 0
            /\ pc' = "size"
            /\ repo' = repo
    /\ UNCHANGED << term_size, rx, cursor, tty_size, git, show_cursor_calls,
                    logging, sent, taken >>

\* run, line 153: after the loop
ShowCursor ==
    /\ pc = "exit"
    /\ pc' = "done"
    /\ cursor' = "shown"
    /\ show_cursor_calls' = show_cursor_calls + 1
    /\ UNCHANGED << repo, head, branches, untracked, unstaged, staged, term_size,
                    refresh, rx, evt, output, tty_size, git, last_git, same_again,
                    resized, renders, refreshes,
                    logging, sent, taken >>

(***************************************************************************)
(* The two producer threads of init_events, and the environment.           *)
(***************************************************************************)
\* the key reader thread, lines 68-74: one event per key read
KeyPress ==
    /\ Alive
    /\ Len(rx) < MaxChan
    /\ logging => Len(sent) < MaxLog
    /\ \E k \in Keys :
          /\ rx' = ChanSend(rx, Input(k))
          /\ sent' = IF logging THEN Append(sent, Input(k)) ELSE sent
    /\ UNCHANGED << repo, head, branches, untracked, unstaged, staged, term_size,
                    refresh, pc, evt, output, cursor, tty_size, git, last_git,
                    same_again, resized, show_cursor_calls, renders, refreshes,
                    logging, taken >>

\* the ticker thread, lines 76-82
TickSend ==
    /\ Alive
    /\ Len(rx) < MaxChan
    /\ logging => Len(sent) < MaxLog
    /\ rx' = ChanSend(rx, Tick)
    /\ sent' = IF logging THEN Append(sent, Tick) ELSE sent
    /\ UNCHANGED << repo, head, branches, untracked, unstaged, staged, term_size,
                    refresh, pc, evt, output, cursor, tty_size, git, last_git,
                    same_again, resized, show_cursor_calls, renders, refreshes,
                    logging, taken >>

TermResize ==
    /\ Alive
    /\ tty_size' \in TermSizes \ {tty_size}
    /\ UNCHANGED << repo, head, branches, untracked, unstaged, staged, term_size,
                    refresh, rx, pc, evt, output, cursor, git, last_git, same_again,
                    resized, show_cursor_calls, renders, refreshes,
                    logging, sent, taken >>

RepoChange ==
    /\ Alive
    /\ git' \in World \ {git}
    /\ UNCHANGED << repo, head, branches, untracked, unstaged, staged, term_size,
                    refresh, rx, pc, evt, output, cursor, tty_size, last_git,
                    same_again, resized, show_cursor_calls, renders, refreshes,
                    logging, sent, taken >>

MainStep == RunStart \/ UpdateSize \/ Recv \/ Draw \/ ShowCursor

Next == RunStart \/ UpdateSize \/ Recv \/ Draw \/ ShowCursor
        \/ KeyPress \/ TickSend \/ TermResize \/ RepoChange

Spec == Init /\ [][Next]_vars

\* The runs with a terminal that keeps its size, in which the main thread runs
\* whenever it can and the ticker never stops.
FairInit == Init /\ term_size = "80x24"

FairNext == RunStart \/ UpdateSize \/ Recv \/ Draw \/ ShowCursor
            \/ KeyPress \/ TickSend \/ RepoChange

FairSpec == FairInit /\ [][FairNext]_vars /\ WF_vars(MainStep) /\ WF_vars(TickSend)

\* The runs that keep the logs of the channel: a terminal that keeps its size,
\* a repository that does not change, and at most MaxLog events sent.
LogInit == InitApp /\ term_size = "80x24" /\ logging = TRUE /\ sent = <<>> /\ taken = <<>>

LogNext == RunStart \/ UpdateSize \/ Recv \/ Draw \/ ShowCursor \/ KeyPress \/ TickSend

LogSpec == LogInit /\ [][LogNext]_vars

(***************************************************************************)
(* The classification alone: one repository whose status enumeration       *)
(* reports a fixed entry and then "p.txt" with any set of the eleven       *)
(* flags; the loop is driven by ticks.                                     *)
(***************************************************************************)
ProbePath == "p.txt"
ProbeStatuses(s) ==
    [ok |-> TRUE, err |-> "",
     entries |-> << Entry("z.txt", {"WT_MODIFIED"}), Entry(ProbePath, s) >>]

ClassifyWorld ==
    { GitState(HeadOnBranch, BranchesOk, ProbeStatuses(s)) : s \in SUBSET AllFlags }

ClassifyInit ==
    /\ repo = "Some" /\ head = <<>> /\ branches = <<>> /\ untracked = <<>>
    /\ unstaged = <<>> /\ staged = <<>> /\ term_size = "80x24" /\ tty_size = term_size
    /\ refresh = TRUE /\ rx = <<>> /\ pc = "start" /\ evt = <<>> /\ output = <<>>
    /\ cursor = "shown" /\ git \in ClassifyWorld /\ last_git = <<>>
    /\ same_again = FALSE /\ resized = 0 /\ show_cursor_calls = 0 /\ renders = 0
    /\ refreshes = 0 /\ logging = FALSE /\ sent = <<>> /\ taken = <<>>

ClassifyNext == RunStart \/ UpdateSize \/ Recv \/ Draw \/ TickSend

ClassifySpec == ClassifyInit /\ [][ClassifyNext]_vars

(***************************************************************************)
(* Vocabulary of the properties.                                           *)
(***************************************************************************)
InStaged(p) == \E i \in DOMAIN staged : staged[i].path = p
InUnstaged(p) == \E i \in DOMAIN unstaged : unstaged[i].path = p
InUntracked(p) == \E i \in DOMAIN untracked : untracked[i] = p

\* in how many of the three lists p is
ListsHolding(p) ==
    (IF InStaged(p) THEN 1 ELSE 0) + (IF InUnstaged(p) THEN 1 ELSE 0)
    + (IF InUntracked(p) THEN 1 ELSE 0)

\* how many elements of the three lists are p
Occurrences(p) ==
    Cardinality({i \in DOMAIN staged : staged[i].path = p})
    + Cardinality({i \in DOMAIN unstaged : unstaged[i].path = p})
    + Cardinality({i \in DOMAIN untracked : untracked[i] = p})

\* a refresh has completed; the lists are those of the answers in last_git
Refreshed == last_git # <<>>
ReportedEntries == last_git[1].statuses.entries
Reported == {ReportedEntries[i] : i \in DOMAIN ReportedEntries}

Running == pc \in {"start", "size", "recv", "draw"}

\* the step of draw that performs a refresh and returns
CompletesRefresh == pc = "draw" /\ pc' = "size" /\ repo = "Some" /\ refresh

\* the step of run that takes Input('r') from the channel
ConsumesR ==
    /\ pc = "recv" /\ rx # <<>> /\ Head(rx) = Input("r")
    /\ rx' = Tail(rx) /\ evt' = <<Input("r")>>

DerivedUnchanged ==
    /\ head' = head /\ branches' = branches /\ untracked' = untracked
    /\ unstaged' = unstaged /\ staged' = staged

EmptyHeadInfo == [ref_name |-> "", message |-> "", hash |-> ""]

(***************************************************************************)
(* Properties.                                                             *)
(***************************************************************************)

\* C1 as stated: after a refresh, every reported entry not flagged ignored
\* (the entry with no flag at all included) is in exactly one of the staged,
\* unstaged and untracked lists, and every entry flagged ignored is in none.
C1_TotalOnNonIgnored ==
    Refreshed =>
        \A e \in Reported :
            ListsHolding(e.path) = IF Contains(e.status, STATUS_IGNORED) THEN 0 ELSE 1

\* C1 as amended: after a refresh, every reported entry that is not flagged
\* ignored and has at least one flag is in exactly one of the three lists;
\* an entry flagged ignored, whatever its other flags, and an entry with no
\* flag are in none.
C1_TotalOnFlaggedNonIgnored ==
    Refreshed =>
        \A e \in Reported :
            ListsHolding(e.path) =
                IF Contains(e.status, STATUS_IGNORED) \/ e.status = {} THEN 0 ELSE 1

C1_Witness ==
    /\ Refreshed
    /\ Entry(ProbePath, {"WT_NEW", "WT_TYPECHANGE"}) \in Reported
    /\ ListsHolding(ProbePath) = 1

\* C2: after a refresh, an entry not flagged ignored is in the staged list and
\* in no other when it has an index-level flag; otherwise in the unstaged list
\* and in no other when it has worktree modified, deleted, renamed or
\* typechange; otherwise in the untracked list and in no other when it has
\* worktree-new.
C2_Precedence ==
    Refreshed =>
        \A e \in Reported :
            ~Contains(e.status, STATUS_IGNORED) =>
                /\ (Intersects(e.status, IndexFlags)
                      => (InStaged(e.path) /\ ~InUnstaged(e.path) /\ ~InUntracked(e.path)))
                /\ ((~Intersects(e.status, IndexFlags) /\ Intersects(e.status, WtChangeFlags))
                      => (InUnstaged(e.path) /\ ~InStaged(e.path) /\ ~InUntracked(e.path)))
                /\ ((~Intersects(e.status, IndexFlags) /\ ~Intersects(e.status, WtChangeFlags)
                        /\ Contains(e.status, STATUS_WT_NEW))
                      => (InUntracked(e.path) /\ ~InStaged(e.path) /\ ~InUnstaged(e.path)))

C2_Witness ==
    /\ Refreshed
    /\ Entry(ProbePath, {"INDEX_MODIFIED", "WT_MODIFIED"}) \in Reported
    /\ InStaged(ProbePath)
    /\ Occurrences(ProbePath) = 1

\* C3: in every state no path is in more than one of the staged, unstaged and
\* untracked lists, nor more than once in one of them (every enumeration
\* reports each path once).
C3_PathAtMostOnce ==
    \A g \in World :
        \A i \in DOMAIN g.statuses.entries :
            Occurrences(g.statuses.entries[i].path) <= 1

C3_Witness ==
    /\ refreshes >= 2
    /\ staged # <<>> /\ unstaged # <<>> /\ untracked # <<>>
    /\ Occurrences("a.txt") = 1

\* C4: needs_refresh is true in the initial state; a refresh that completes
\* leaves it false; and it goes from false to true only in the step that takes
\* Input('r') from the channel.
C4_RefreshLifecycle ==
    /\ refresh = TRUE
    /\ [][ /\ CompletesRefresh => ~refresh'
           /\ (~refresh /\ refresh') => ConsumesR ]_vars

C4_Witness ==
    /\ Refreshed
    /\ pc = "draw"
    /\ evt = <<Input("r")>>
    /\ refresh

\* C5 as stated: in every run in which the loop keeps running and keeps
\* receiving events, needs_refresh, when true, eventually becomes false,
\* whether or not a repository handle was opened.
C5_NeverLeftPending == refresh ~> (~refresh \/ ~Running)

\* C5 as amended: the same, for the runs in which a repository handle was
\* opened.  (With no handle needs_refresh is true in every state.)
C5_ClearedWithRepo == (refresh /\ repo = "Some") ~> (~refresh \/ ~Running)

C5_Witness ==
    /\ repo = "Some"
    /\ ~refresh
    /\ pc = "size"
    /\ refreshes >= 2

\* C6: a refresh that finds HEAD unresolvable completes all the same: it
\* returns to the loop with needs_refresh false, the lists of this refresh
\* and a HeadInfo whose fields are all empty.
C6_UnbornHeadNoCrash ==
    [][ (pc = "draw" /\ pc' # "draw" /\ repo = "Some" /\ refresh /\ ~git.head.ok) =>
           /\ pc' = "size"
           /\ ~refresh'
           /\ head' = <<EmptyHeadInfo>>
           /\ last_git' = <<git>> ]_vars

\* C7: while no repository handle was opened, the head info is absent, the
\* four lists are empty and no refresh has been begun.  (In the state left by
\* a panic the handle is absent because draw had taken it out.)
C7_NoRepoNothingShown ==
    (repo = "None" /\ pc # "panicked") =>
        /\ head = <<>>
        /\ branches = <<>> /\ untracked = <<>> /\ unstaged = <<>> /\ staged = <<>>
        /\ refreshes = 0
        /\ last_git = <<>>

C7_Witness ==
    /\ repo = "None"
    /\ pc = "size"
    /\ renders >= 2
    /\ rx # <<>> /\ Head(rx) = Input("r")
    /\ output = <<"rngit\n">>

\* C8: once Input('q') has been taken the loop is left: nothing more is taken
\* from the channel, nothing is drawn or refreshed, and show_cursor has been
\* called once when the run is over and not at all before.
C8_QuitExits ==
    /\ [](/\ show_cursor_calls = IF pc = "done" THEN 1 ELSE 0
          /\ (evt = <<Input("q")>>) <=> (pc \in {"exit", "done"})
          /\ (cursor = "shown") <=> (pc \in {"start", "done"}))
    /\ [][ evt = <<Input("q")>> =>
             /\ evt' = evt
             /\ pc' \in {"exit", "done"}
             /\ Len(rx') >= Len(rx) /\ SubSeq(rx', 1, Len(rx)) = rx
             /\ renders' = renders /\ refreshes' = refreshes /\ output' = output
             /\ refresh' = refresh /\ last_git' = last_git
             /\ DerivedUnchanged ]_vars

C8_Witness ==
    /\ pc = "done"
    /\ show_cursor_calls = 1
    /\ rx # <<>>
    /\ renders >= 1

\* C9: update_size calls resize once when the size the terminal reports
\* differs from the cached size and not at all when it is equal, and leaves
\* the cached size equal to the reported size; nothing else calls resize.
C9_ResizeOncePerIteration ==
    /\ [](/\ resized \in {0, 1}
          /\ pc = "size" => resized = 0)
    /\ [][ /\ (pc = "size" /\ pc' = "recv") =>
                /\ resized' = IF tty_size # term_size THEN 1 ELSE 0
                /\ term_size' = tty_size
           /\ (pc # "size") => (resized' <= resized /\ term_size' = term_size) ]_vars

C9_Witness ==
    /\ pc = "recv"
    /\ resized = 1
    /\ renders >= 1
    /\ term_size = tty_size

\* C10: a refresh that gets the answers the refresh before it got leaves the
\* head info and the four lists as they were.
C10_RefreshIdempotent ==
    [][ (CompletesRefresh /\ last_git = <<git>>) => DerivedUnchanged ]_vars

C10_Witness ==
    /\ same_again
    /\ last_git = <<GitState(HeadNoCommit, BranchesErr, StatusMixed)>>
    /\ staged # <<>> /\ unstaged # <<>> /\ untracked # <<>>

\* the pieces of a frame
Pieces(o) == {o[i] : i \in DOMAIN o}

\* the names of the branches an enumeration yields, in its order
RECURSIVE YieldedNames(_)
YieldedNames(items) ==
    IF items = <<>> THEN <<>>
    ELSE (IF Head(items).ok THEN <<Head(items).name>> ELSE <<>>)
         \o YieldedNames(Tail(items))

\* the paths of an enumeration that belong in one of the three lists
ShownPaths(entries) ==
    {entries[i].path : i \in {j \in DOMAIN entries :
        /\ ~Contains(entries[j].status, STATUS_IGNORED)
        /\ entries[j].status # {}}}

ListedPaths ==
    {staged[i].path : i \in DOMAIN staged} \cup {unstaged[i].path : i \in DOMAIN unstaged}
    \cup {untracked[i] : i \in DOMAIN untracked}

\* the step of draw in which the refresh gets as far as the two enumerations:
\* they are called after HEAD has been resolved (lines 168, 189, 210)
Enumerates == pc = "draw" /\ pc' # "draw" /\ repo = "Some" /\ refresh /\ git.head.ok

\* C11: a refresh whose branch enumeration fails puts the error's message into
\* the frame and still classifies what the status enumeration reports; one
\* whose status enumeration fails puts the error's message into the frame and
\* keeps the branches collected; in every combination the refresh returns to
\* the loop with needs_refresh false.
C11_EnumerationFailuresRecoverable ==
    [][ Enumerates =>
          /\ pc' = "size" /\ ~refresh' /\ last_git' = <<git>>
          /\ ~git.branches.ok =>
                /\ git.branches.err \in Pieces(output')
                /\ branches' = <<>>
                /\ ListedPaths' = ShownPaths(git.statuses.entries)
          /\ ~git.statuses.ok =>
                /\ git.statuses.err \in Pieces(output')
                /\ ListedPaths' = {}
                /\ branches' = YieldedNames(git.branches.items) ]_vars

C11_Witness ==
    /\ pc = "recv"
    /\ ~refresh
    /\ last_git = <<GitState(HeadOnBranch, BranchesErr, StatusErr)>>
    /\ BranchesErr.err \in Pieces(output)
    /\ StatusErr.err \in Pieces(output)
    /\ refreshes >= 2

\* C12: after a completed refresh the head info and the lists hold what that
\* refresh was answered and nothing else: hash and message are the commit's,
\* or empty when the commit was not found; ref_name is the shorthand
\* reported, or empty; the branches are the names yielded, none when the
\* enumeration failed; the listed paths are paths reported, none when the
\* enumeration failed.
C12_ReplacedWholesale ==
    Refreshed =>
        LET g == last_git[1] IN
        /\ Len(head) = 1
        /\ head[1].hash = IF g.head.commit # <<>> THEN g.head.commit[1].id ELSE ""
        /\ head[1].message = IF g.head.commit # <<>> THEN g.head.commit[1].message ELSE ""
        /\ head[1].ref_name = IF g.head.shorthand # <<>> THEN g.head.shorthand[1] ELSE ""
        /\ branches = IF g.branches.ok THEN YieldedNames(g.branches.items) ELSE <<>>
        /\ ListedPaths = IF g.statuses.ok THEN ShownPaths(g.statuses.entries) ELSE {}
        /\ Len(staged) + Len(unstaged) + Len(untracked) = Cardinality(ListedPaths)

C12_Witness ==
    /\ refreshes >= 2
    /\ ~same_again
    /\ last_git = <<GitState(HeadNoCommit, BranchesErr, StatusMixed)>>
    /\ head = <<[ref_name |-> "master", message |-> "", hash |-> ""]>>
    /\ branches = <<>>
    /\ pc = "size"

\* the number of Input('r') events run has taken from the channel
RConsumed == Cardinality({i \in DOMAIN taken : taken[i] = Input("r")})

\* a step that queries the repository: it counts as a refresh, or replaces
\* the answers kept or the state derived from them
Queries == refreshes' # refreshes \/ last_git' # last_git \/ ~DerivedUnchanged

\* C13: the repository is queried only by draw, in an iteration where refresh
\* is set and the repository is present; once a refresh has been performed
\* only an iteration that took Input('r') queries again (a Tick or another
\* key never does); and the number of refreshes performed is at most 1 plus
\* the number of Input('r') events taken from the channel.
C13_OnlyOnRequest ==
    /\ [](logging => refreshes <= 1 + RConsumed)
    /\ [][ Queries =>
             /\ pc = "draw" /\ refresh = TRUE /\ repo = "Some"
             /\ (refreshes = 0 \/ evt = <<Input("r")>>) ]_vars

C13_Witness ==
    /\ logging
    /\ taken = << Tick, Input("r"), Input("x"), Tick >>
    /\ refreshes = 2
    /\ pc = "size"

\* HEAD resolves to a branch: the reference that repo.head() returns for a
\* detached HEAD is HEAD itself, and its shorthand is the name "HEAD"
OnNamedBranch(h) == h.ok /\ h.shorthand # <<>> /\ h.shorthand # <<"HEAD">>

\* C14: after a completed refresh, ref_name is the shorthand of the branch
\* when HEAD points at a named branch, and is empty when HEAD is detached
\* (the shorthand reported for a detached HEAD is not stored).
C14_RefNameOnlyForBranch ==
    Refreshed =>
        /\ Len(head) = 1
        /\ head[1].ref_name = IF OnNamedBranch(last_git[1].head)
                              THEN last_git[1].head.shorthand[1]
                              ELSE ""

\* the number of events other than Input('q') that run has taken
NonQuitConsumed == Cardinality({i \in DOMAIN taken : taken[i] # Input("q")})

Min(a, b) == IF a <= b THEN a ELSE b

\* C15: every iteration that takes an event other than Input('q') renders
\* once: outside draw, the number of renders is the number of events other
\* than Input('q') taken from the channel.
C15_OneRenderPerEvent ==
    (logging /\ pc # "draw") => renders = Min(NonQuitConsumed, MaxCount)

\* the four labels in their fixed order, with the flag each stands for at
\* the index level and at the worktree level
LabelOrder == << "modified: ", "deleted:  ", "renamed:  ", "typechange:" >>
IndexOrder == << "INDEX_MODIFIED", "INDEX_DELETED", "INDEX_RENAMED", "INDEX_TYPECHANGE" >>
WtOrder == << "WT_MODIFIED", "WT_DELETED", "WT_RENAMED", "WT_TYPECHANGE" >>
LabelTexts == {LabelOrder[k] : k \in DOMAIN LabelOrder}

\* the labels that match the flags stat, in the fixed order
Matching(stat, order) == {k \in DOMAIN order : order[k] \in stat}
FirstMatching(stat, order) ==
    LabelOrder[CHOOSE k \in Matching(stat, order) :
                   \A j \in Matching(stat, order) : k <= j]

\* the frame shows the path p right after the label lab and nothing but lab
\* as its label
LabelledAs(p, lab) ==
    \E i \in DOMAIN output :
        /\ i > 2
        /\ output[i] = p
        /\ output[i - 1] = lab
        /\ output[i - 2] \notin LabelTexts

\* C16: every entry of the staged list and every entry of the unstaged list
\* is rendered with exactly one label, the first that matches in the order
\* modified, deleted, renamed, typechange on its index flags (staged) or on
\* its worktree flags (unstaged); the staged entry whose only index flag is
\* INDEX_NEW included.
C16_ExactlyOneLabel ==
    Refreshed =>
        /\ \A i \in DOMAIN staged :
              /\ Matching(staged[i].status, IndexOrder) # {}
              /\ LabelledAs(staged[i].path, FirstMatching(staged[i].status, IndexOrder))
        /\ \A i \in DOMAIN unstaged :
              /\ Matching(unstaged[i].status, WtOrder) # {}
              /\ LabelledAs(unstaged[i].path, FirstMatching(unstaged[i].status, WtOrder))

IsPrefix(a, b) == Len(a) <= Len(b) /\ \A i \in DOMAIN a : a[i] = b[i]

\* the step of run that takes Input('q') from the channel
ConsumesQ ==
    /\ pc = "recv" /\ rx # <<>> /\ Head(rx) = Input("q")
    /\ rx' = Tail(rx) /\ evt' = <<Input("q")>>

\* C17 as stated: the events are taken in the order they were sent, and every
\* event sent before Input('q') is taken has been taken, once, by then.
C17_AllBeforeQuitProcessed ==
    /\ [](logging => IsPrefix(taken, sent))
    /\ [][ (logging /\ ConsumesQ) => taken' = sent ]_vars

\* C17: the events taken are, in order and one for one, the first events
\* sent, and the rest of what was sent is still in the channel in the order
\* sent (nothing lost, duplicated, merged or overtaken, so each producer's
\* events are taken in the order it sent them); Input('q') is the last event
\* taken, so the events behind it in the channel are never processed.
C17_FifoUntilQuit ==
    logging =>
        /\ sent = taken \o rx
        /\ \A i \in DOMAIN taken : taken[i] = Input("q") => i = Len(taken)
        /\ (pc \in {"exit", "done"} => taken # <<>> /\ taken[Len(taken)] = Input("q"))

C17_Witness ==
    /\ logging
    /\ pc = "done"
    /\ taken = << Input("x"), Input("x"), Input("q") >>
    /\ rx = << Tick >>

\* Input('q') has been sent and is waiting in the channel
QuitQueued == \E i \in DOMAIN rx : rx[i] = Input("q")

\* C18: once Input('q') is in the channel the loop eventually takes it and
\* exits, whatever is queued ahead of it; and the loop is left in no other
\* way: whenever it is no longer running, the event it took last is
\* Input('q').
C18_QuitTerminates ==
    /\ QuitQueued ~> (pc \in {"exit", "done"})
    /\ [](~Running => evt = <<Input("q")>>)

\* the Input('r') events taken after the first event (the iteration of the
\* first event serves the refresh pending since App::new, 'r' or not)
LaterR == Cardinality({i \in DOMAIN taken : i >= 2 /\ taken[i] = Input("r")})

\* the step of draw in the iteration that took Input('r'), repository present
DrawsAfterR == pc = "draw" /\ pc' # "draw" /\ repo = "Some" /\ evt = <<Input("r")>>

\* C19: with a repository present, a refresh request is served in the
\* iteration that took it: refresh is false whenever run waits for an event
\* after a render; the draw of an iteration that took Input('r') finds
\* refresh set and performs the refresh, leaving refresh false; and the
\* number of refreshes is 1 plus the number of Input('r') events taken after
\* the first event, so k Input('r') events in a row cause k refreshes.
C19_ServedInSameIteration ==
    /\ []((pc = "recv" /\ renders >= 1 /\ repo = "Some") => refresh = FALSE)
    /\ []((pc = "draw" /\ repo = "Some" /\ evt = <<Input("r")>>) => refresh = TRUE)
    /\ [][ DrawsAfterR =>
             /\ refreshes' = Inc(refreshes)
             /\ \/ pc' = "panicked"
                \/ (pc' = "size" /\ last_git' = <<git>> /\ refresh' = FALSE) ]_vars
    /\ []((/\ logging /\ pc # "draw" /\ NonQuitConsumed >= 1
           /\ (repo = "Some" \/ pc = "panicked"))
          => refreshes = Min(1 + LaterR, MaxCount))

C19_Witness ==
    /\ logging
    /\ repo = "Some"
    /\ taken = << Input("r"), Input("r") >>
    /\ pc = "recv"
    /\ refreshes = 2
    /\ refresh = FALSE

\* the texts of the enumeration errors, and those of the answers g
ErrorTexts == {BranchesErr.err, StatusErr.err}
ErrorTextsOf(g) ==
    (IF g.branches.ok THEN {} ELSE {g.branches.err})
    \cup (IF g.statuses.ok THEN {} ELSE {g.statuses.err})

\* the step of draw that renders without performing a refresh
RendersOnly == pc = "draw" /\ pc' = "size" /\ ~(repo = "Some" /\ refresh)

\* C20: the frame of an iteration that performed a refresh carries the note
\* of each enumeration that failed in it and no other; a frame rendered
\* without a refresh carries no note and leaves the derived state as it was,
\* so the lists a failed enumeration emptied stay empty until the next
\* refresh.
C20_NotesTransient ==
    /\ [][ CompletesRefresh =>
             Pieces(output') \cap ErrorTexts = ErrorTextsOf(git) ]_vars
    /\ [][ RendersOnly =>
             /\ Pieces(output') \cap ErrorTexts = {}
             /\ DerivedUnchanged ]_vars
    /\ [](Refreshed =>
             /\ (~last_git[1].branches.ok => branches = <<>>)
             /\ (~last_git[1].statuses.ok => ListedPaths = {}))

C20_Witness ==
    /\ pc = "size"
    /\ refreshes = 1
    /\ renders >= 2
    /\ last_git = <<GitState(HeadOnBranch, BranchesErr, StatusErr)>>
    /\ Pieces(output) \cap ErrorTexts = {}
    /\ branches = <<>>
    /\ ListedPaths = {}

====
